---- MODULE Spec2Model ----
(***************************************************************************)
(* Model of the invoice server actions of app/lib/actions.ts:             *)
(* createInvoice, updateInvoice and deleteInvoice, with the zod schema    *)
(* (FormSchema) they validate against, the JavaScript number arithmetic   *)
(* behind `amount * 100`, the store the SQL statements act on, and the    *)
(* revalidatePath / redirect signals.                                     *)
(***************************************************************************)
EXTENDS Integers, Sequences, FiniteSets, TLC

(***************************************************************************)
(* Bounds of the model.                                                    *)
(***************************************************************************)
\* Number of server-action invocations in one behaviour.
MaxCalls == 2
\* Last instant of the clock (the clock starts at 0).
MaxNow == 2

(***************************************************************************)
(* Form values.  FormData.get(name) is null when the field is missing, a  *)
(* File for an upload, otherwise a string.  A string is the sequence of   *)
(* its characters.                                                         *)
(***************************************************************************)
Null == [kind |-> "null", chars |-> <<>>]
File == [kind |-> "file", chars |-> <<>>]
Str(cs) == [kind |-> "string", chars |-> cs]

(***************************************************************************)
(* Natural numbers of any size, as sequences of bits, most significant    *)
(* bit first.  A JavaScript number has a 53-bit significand, which no     *)
(* machine integer of the checker holds.                                   *)
(***************************************************************************)
Zeros(k) == [i \in 1..k |-> 0]

\* b without its leading zero bits.
Strip(b) ==
    IF \A i \in 1..Len(b) : b[i] = 0 THEN <<>>
    ELSE SubSeq(b, CHOOSE i \in 1..Len(b) :
                       b[i] = 1 /\ \A j \in 1..(i - 1) : b[j] = 0, Len(b))

RECURSIVE NatToBits(_)
NatToBits(n) == IF n = 0 THEN <<>> ELSE Append(NatToBits(n \div 2), n % 2)

\* The arithmetic below works on chunks of 8 bits at a time.

\* The natural v < 256 as exactly 8 bits.
Chunk(v) ==
    <<(v \div 128) % 2, (v \div 64) % 2, (v \div 32) % 2, (v \div 16) % 2,
      (v \div 8) % 2, (v \div 4) % 2, (v \div 2) % 2, v % 2>>

\* b with leading zeros added up to a whole number of chunks.
Padded(b) == Zeros((8 - (Len(b) % 8)) % 8) \o b

\* The value of the i-th chunk of a padded b.
ChunkAt(b, i) ==
    LET s == 8 * (i - 1)
    IN  128 * b[s + 1] + 64 * b[s + 2] + 32 * b[s + 3] + 16 * b[s + 4]
        + 8 * b[s + 5] + 4 * b[s + 6] + 2 * b[s + 7] + b[s + 8]

\* b * c for a small natural c: schoolbook multiplication from the last chunk.
RECURSIVE MulSmallFrom(_, _, _, _)
MulSmallFrom(b, c, i, carry) ==
    IF i = 0 THEN NatToBits(carry)
    ELSE LET t == ChunkAt(b, i) * c + carry
         IN  MulSmallFrom(b, c, i - 1, t \div 256) \o Chunk(t % 256)

MulSmall(b, c) ==
    LET p == Padded(b) IN Strip(MulSmallFrom(p, c, Len(p) \div 8, 0))

\* <<quotient, remainder>> of b by a small natural c > 0: long division from
\* the first chunk.
RECURSIVE DivSmallFrom(_, _, _, _, _)
DivSmallFrom(b, c, i, q, rem) ==
    IF i > Len(b) \div 8 THEN <<Strip(q), rem>>
    ELSE LET r == 256 * rem + ChunkAt(b, i)
         IN  DivSmallFrom(b, c, i + 1, q \o Chunk(r \div c), r % c)

DivSmall(b, c) == DivSmallFrom(Padded(b), c, 1, <<>>, 0)

\* b + 1.
Incr(b) ==
    IF \A i \in 1..Len(b) : b[i] = 1 THEN <<1>> \o Zeros(Len(b))
    ELSE LET j == CHOOSE i \in 1..Len(b) :
                      b[i] = 0 /\ \A k \in (i + 1)..Len(b) : b[k] = 1
         IN  SubSeq(b, 1, j - 1) \o <<1>> \o Zeros(Len(b) - j)

AllZero(b) == \A i \in 1..Len(b) : b[i] = 0

RECURSIVE Pow10(_)
Pow10(d) == IF d = 0 THEN 1 ELSE 10 * Pow10(d - 1)

(***************************************************************************)
(* JavaScript numbers (IEEE-754 binary64).  A finite nonzero number is    *)
(* sign, a 53-bit significand m with its first bit set, and an exponent   *)
(* e: its value is m * 2^e.  The inputs of the model stay far from the    *)
(* subnormal and overflow ranges.                                          *)
(***************************************************************************)
MantissaBits == 53

NaN == [cls |-> "nan", neg |-> FALSE, m |-> <<>>, e |-> 0]
Zero(neg) == [cls |-> "zero", neg |-> neg, m |-> <<>>, e |-> 0]
Finite(neg, m, e) == [cls |-> "finite", neg |-> neg, m |-> m, e |-> e]

\* r * 2^e as a number, where r holds MantissaBits bits, or one more after a
\* carry out of the rounding (then its last bit is 0).
Carried(neg, r, e) ==
    IF Len(r) > MantissaBits
    THEN Finite(neg, SubSeq(r, 1, MantissaBits), e + 1)
    ELSE Finite(neg, r, e)

\* The number nearest to q * 2^e, where the exact value is q * 2^e plus a
\* fraction of 2^e that is above a half (up), a half exactly (half) or below:
\* round to nearest, ties to even.  q holds exactly MantissaBits bits.
RoundNearestEven(neg, q, e, up, half) ==
    Carried(neg, IF up \/ (half /\ q[Len(q)] = 1) THEN Incr(q) ELSE q, e)

\* The number nearest to the natural s * 2^e (s as bits, its first bit set).
RoundBits(neg, s, e) ==
    LET t == Len(s) - MantissaBits
    IN  IF t <= 0 THEN Finite(neg, s \o Zeros(-t), e + t)
        ELSE RoundNearestEven(neg, SubSeq(s, 1, MantissaBits), e + t,
                 s[MantissaBits + 1] = 1
                     /\ \E i \in (MantissaBits + 2)..Len(s) : s[i] = 1,
                 s[MantissaBits + 1] = 1
                     /\ \A i \in (MantissaBits + 2)..Len(s) : s[i] = 0)

\* <<quotient, remainder>> of n * 2^k by D.
QuotientAt(n, D, k) == DivSmall(NatToBits(n) \o Zeros(k), D)

\* The number nearest to a / 2^k, a == <<quotient, remainder>> by D.
Rounded(neg, D, k, a) ==
    RoundNearestEven(neg, a[1], -k, 2 * a[2] > D, 2 * a[2] = D)

\* The quotient a0 at k0 holds MantissaBits bits, or one less than that: then
\* the quotient at k0 + 1 holds them.
NearestFrom(neg, n, D, k0, a0) ==
    IF Len(a0[1]) < MantissaBits
    THEN Rounded(neg, D, k0 + 1, QuotientAt(n, D, k0 + 1))
    ELSE Rounded(neg, D, k0, a0)

Nearest(neg, n, D, k0) == NearestFrom(neg, n, D, k0, QuotientAt(n, D, k0))

\* The number nearest to the decimal n / 10^d: the quotient of n * 2^k by
\* 10^d, with k chosen so that it holds MantissaBits bits.
DecimalToNumber(neg, n, d) ==
    IF n = 0 THEN Zero(neg)
    ELSE Nearest(neg, n, Pow10(d),
                 MantissaBits - 1 + Len(NatToBits(Pow10(d))) - Len(NatToBits(n)))

\* x * c in JavaScript for a small positive integer c.
TimesSmall(x, c) ==
    IF x.cls = "finite" THEN RoundBits(x.neg, MulSmall(x.m, c), x.e) ELSE x

\* Number.isInteger(x).
IsInteger(x) ==
    \/ x.cls = "zero"
    \/ /\ x.cls = "finite"
       /\ \/ x.e >= 0
          \/ /\ -x.e < Len(x.m)
             /\ AllZero(SubSeq(x.m, Len(x.m) + x.e + 1, Len(x.m)))

\* x is exactly the rational p / q (p >= 0, q > 0 small naturals).
EqualsRational(x, p, q) ==
    IF p = 0 THEN x.cls = "zero"
    ELSE /\ x.cls = "finite"
         /\ ~x.neg
         /\ IF x.e >= 0
            THEN MulSmall(x.m \o Zeros(x.e), q) = NatToBits(p)
            ELSE MulSmall(x.m, q) = NatToBits(p) \o Zeros(-x.e)

(***************************************************************************)
(* Number(value), the coercion of z.coerce.number().  null is +0, an      *)
(* object such as a File is NaN, and a string goes through StringToNumber: *)
(* white space trimmed, empty is +0, then an optional sign and a decimal  *)
(* literal (digits, digits.digits, digits. or .digits); anything else is  *)
(* NaN.  The strings of the model are written with digits, ".", "+", "-", *)
(* " " and letters that start no numeric literal.                          *)
(***************************************************************************)
Digits == <<"0", "1", "2", "3", "4", "5", "6", "7", "8", "9">>

IsDigit(ch) == \E i \in 1..Len(Digits) : Digits[i] = ch

DigitValue(ch) == (CHOOSE i \in 1..Len(Digits) : Digits[i] = ch) - 1

RECURSIVE DigitsToNat(_)
DigitsToNat(cs) ==
    IF cs = <<>> THEN 0
    ELSE 10 * DigitsToNat(SubSeq(cs, 1, Len(cs) - 1)) + DigitValue(cs[Len(cs)])

Trim(cs) ==
    LET solid == {i \in 1..Len(cs) : cs[i] # " "}
    IN  IF solid = {} THEN <<>>
        ELSE SubSeq(cs, CHOOSE i \in solid : \A j \in solid : i <= j,
                        CHOOSE i \in solid : \A j \in solid : j <= i)

\* Where the literal cs has its point: past its end when it has none.
PointAt(cs) ==
    IF \A i \in 1..Len(cs) : cs[i] # "." THEN Len(cs) + 1
    ELSE CHOOSE i \in 1..Len(cs) : cs[i] = "."

\* The digits before the point, followed by the digits after it.
AllDigits(cs) == SubSeq(cs, 1, PointAt(cs) - 1) \o SubSeq(cs, PointAt(cs) + 1, Len(cs))

\* The number of digits after the point.
Scale(cs) == IF PointAt(cs) > Len(cs) THEN 0 ELSE Len(cs) - PointAt(cs)

\* An unsigned decimal literal: digits with at most one point among them.
UnsignedToNumber(neg, cs) ==
    IF \/ AllDigits(cs) = <<>>
       \/ \E i \in 1..Len(AllDigits(cs)) : ~IsDigit(AllDigits(cs)[i])
    THEN NaN
    ELSE DecimalToNumber(neg, DigitsToNat(AllDigits(cs)), Scale(cs))

\* A trimmed string: empty, or a literal with an optional sign.
SignedToNumber(t) ==
    IF t = <<>> THEN Zero(FALSE)
    ELSE UnsignedToNumber(t[1] = "-", IF t[1] \in {"-", "+"} THEN Tail(t) ELSE t)

StringToNumber(cs) == SignedToNumber(Trim(cs))

ToNumber(v) ==
    IF v.kind = "null" THEN Zero(FALSE)
    ELSE IF v.kind = "string" THEN StringToNumber(v.chars)
    ELSE NaN

\* x > 0 on JavaScript numbers.
GreaterThanZero(x) == x.cls = "finite" /\ ~x.neg

(***************************************************************************)
(* The inputs of the model.                                                *)
(***************************************************************************)
Pending == <<"p", "e", "n", "d", "i", "n", "g">>
Paid == <<"p", "a", "i", "d">>
Draft == <<"d", "r", "a", "f", "t">>
Customer1 == <<"c", "1">>
Customer2 == <<"c", "2">>

CustomerValues == {Null, File, Str(<<>>), Str(Customer1), Str(Customer2)}

StatusValues == {Null, File, Str(<<>>), Str(Pending), Str(Paid), Str(Draft)}

AmountValues ==
    {Null, File, Str(<<>>), Str(<<"a", "b", "c">>), Str(<<"0">>),
     Str(<<"-", "5">>), Str(<<"-", "0">>), Str(<<"1", ".", "2", ".", "3">>),
     Str(<<"1", "2", ".", "5", "0">>), Str(<<"0", ".", "0", "1">>),
     Str(<<"1", "0", "0">>), Str(<<" ", "5", " ">>), Str(<<"1", ".", "1">>),
     Str(<<"0", ".", "0", "0", "1">>), Str(<<"1", "9", ".", "9", "9">>)}

\* Every payload a form submission can carry in the model.
AllFormDatas ==
    [customerId : CustomerValues, amount : AmountValues, status : StatusValues]

\* The payloads of the concurrent invocations: two that pass validation and
\* one with every field missing.
FormDatas ==
    {[customerId |-> Str(Customer1), amount |-> Str(<<"1", "2", ".", "5", "0">>),
      status |-> Str(Pending)],
     [customerId |-> Str(Customer2), amount |-> Str(<<" ", "5", " ">>),
      status |-> Str(Paid)],
     [customerId |-> Null, amount |-> Null, status |-> Null]}

(***************************************************************************)
(* FormSchema, and CreateInvoice / UpdateInvoice, which omit id and date  *)
(* and are the same schema: customerId, amount, status.  Each field       *)
(* yields the sequence of the messages of its issues, empty when valid.   *)
(***************************************************************************)
Fields == {"customerId", "amount", "status"}

CustomerMessage == "Please select a customer."
AmountMessage == "Please enter an amount greater than $0."
StatusMessage == "Please select an invoice status."
\* zod's own messages, for the issues the schema gives no message to; the
\* second one goes on with the value received.
NanMessage == "Expected number, received nan"
EnumMessage == "Invalid enum value. Expected 'pending' | 'paid'"

\* z.string({ invalid_type_error })
CustomerIdIssues(v) ==
    IF v.kind = "string" THEN <<>> ELSE <<CustomerMessage>>

\* z.coerce.number()
CoerceNumber(v) == ToNumber(v)

\* A bound that lets 0 through: .gte(0) where the schema has .gt(0).
Gt0_Gte(x) == x.cls = "zero" \/ GreaterThanZero(x)

\* .gt(0, { message })
Gt0(x) == GreaterThanZero(x)

\* The issues of the amount, x being the coerced value.
AmountIssues(x) ==
    IF x.cls = "nan" THEN <<NanMessage>>
    ELSE IF Gt0(x) THEN <<>>
    ELSE <<AmountMessage>>

\* The message given as `message`, for every issue of the field, where the
\* schema gives it as invalid_type_error.
StatusIssues_MessageForAll(v) ==
    IF v.kind = "string" /\ v.chars \in {Pending, Paid} THEN <<>>
    ELSE <<StatusMessage>>

\* z.enum(['pending', 'paid'], { invalid_type_error })
StatusIssues(v) ==
    IF v.kind # "string" THEN <<StatusMessage>>
    ELSE IF v.chars \in {Pending, Paid} THEN <<>>
    ELSE <<EnumMessage>>

\* The issues of every field, x being the coerced amount.
Issues(fd, x) ==
    [f \in Fields |->
        CASE f = "customerId" -> CustomerIdIssues(fd.customerId)
          [] f = "amount" -> AmountIssues(x)
          [] f = "status" -> StatusIssues(fd.status)]

NoErrors == [f \in {} |-> <<>>]

NoData == [customerId |-> <<>>, amount |-> NaN, status |-> <<>>]

\* A validation that stops at the first field with an issue.
ParseResult_FirstIssueOnly(fd, x, issues) ==
    IF \A f \in Fields : issues[f] = <<>>
    THEN [success |-> TRUE, fieldErrors |-> NoErrors,
          data |-> [customerId |-> fd.customerId.chars, amount |-> x,
                    status |-> fd.status.chars]]
    ELSE [success |-> FALSE,
          fieldErrors |->
              [f \in {IF issues["customerId"] # <<>> THEN "customerId"
                      ELSE IF issues["amount"] # <<>> THEN "amount"
                      ELSE "status"} |-> issues[f]],
          data |-> NoData]

\* The result of safeParse: success with the typed data, or failure with
\* error.flatten().fieldErrors, which holds the fields with issues, each with
\* its messages.
ParseResult(fd, x, issues) ==
    IF \A f \in Fields : issues[f] = <<>>
    THEN [success |-> TRUE, fieldErrors |-> NoErrors,
          data |-> [customerId |-> fd.customerId.chars, amount |-> x,
                    status |-> fd.status.chars]]
    ELSE [success |-> FALSE,
          fieldErrors |-> [f \in {g \in Fields : issues[g] # <<>>} |-> issues[f]],
          data |-> NoData]

ParseWith(fd, x) == ParseResult(fd, x, Issues(fd, x))

\* schema.safeParse(payload)
safeParse(fd) == ParseWith(fd, CoerceNumber(fd.amount))

\* amount * 100
amountInCents(amount) == TimesSmall(amount, 100)

(***************************************************************************)
(* State.                                                                  *)
(***************************************************************************)
VARIABLES
    store,   \* the invoices table: id -> [customer_id, amount, status, date]
    now,     \* the clock
    stale,   \* whether '/dashboard/invoices' has been marked for revalidation
    calls    \* the invocations of the server actions, one record each

vars == <<store, now, stale, calls>>

Calls == 1..MaxCalls

\* The identifiers the store can assign: enough for the row the table may
\* start with and one row for every invocation.
Ids == 1..(MaxCalls + 1)

\* The identifier the concurrent invocations of updateInvoice and
\* deleteInvoice are bound to.  The table starts with a row under it or
\* without one, and an insert may take it, so the invocations meet a row
\* that was there, a row another invocation created, and no row.
BoundIds == {1}

\* Instants of the clock in one UTC day.
InstantsPerDay == 2

\* new Date().toISOString().split('T')[0]: the UTC calendar date of the
\* instant, as a day number.
IsoDate(t) == t \div InstantsPerDay

NoForm == [customerId |-> Null, amount |-> Null, status |-> Null]

NoStmt == [kind |-> "none", id |-> 0, customer_id |-> <<>>, amount |-> NaN,
           status |-> <<>>, date |-> 0]

NoResult == [returned |-> FALSE, errors |-> NoErrors, message |-> ""]

\* An invocation not made yet.
IdleCall == [op |-> "none", id |-> 0, formData |-> NoForm, pc |-> "idle",
             result |-> NoResult, stmt |-> NoStmt, trace |-> <<>>]

\* A row the table may hold before the first invocation.
SeedRow == [customer_id |-> Customer2,
            amount |-> amountInCents(CoerceNumber(Str(<<"1", "0", "0">>))),
            status |-> Pending, date |-> 0]

InitialStores == {[i \in {} |-> SeedRow], [i \in {1} |-> SeedRow]}

Init ==
    /\ store \in InitialStores
    /\ now = 0
    /\ stale = FALSE
    /\ calls = [c \in Calls |-> IdleCall]

\* The client submits a form (or the delete button): the invocation c of the
\* server action op is made, with its bound id and its payload.  Invocations
\* are numbered in the order they are made.
Submit(c, op, id, fd) ==
    /\ calls[c].pc = "idle"
    /\ IF c = 1 THEN TRUE ELSE calls[c - 1].pc # "idle"
    /\ calls' = [calls EXCEPT ![c] =
            [@ EXCEPT !.op = op, !.id = id, !.formData = fd, !.pc = "submitted"]]
    /\ UNCHANGED <<store, now, stale>>

(***************************************************************************)
(* createInvoice and updateInvoice up to the await of the SQL statement.  *)
(***************************************************************************)
CreateMessage == "Missing Fields. Failed to Create Invoice."
UpdateMessage == "Missing Fields. Failed to Update Invoice."

\* The early return of a failed validation.
FailureResult(validatedFields, message) ==
    [returned |-> TRUE, errors |-> validatedFields.fieldErrors,
     message |-> message]

\* An INSERT of the amount as entered, not of amountInCents.
InsertStmt_AmountAsEntered(data, date) ==
    [kind |-> "INSERT", id |-> 0, customer_id |-> data.customerId,
     amount |-> data.amount, status |-> data.status, date |-> date]

\* INSERT INTO invoices (customer_id, amount, status, date) VALUES (...)
InsertStmt(data, date) ==
    [kind |-> "INSERT", id |-> 0, customer_id |-> data.customerId,
     amount |-> amountInCents(data.amount), status |-> data.status,
     date |-> date]

\* UPDATE invoices SET customer_id = .., amount = .., status = .. WHERE id = ..
UpdateStmt(id, data) ==
    [kind |-> "UPDATE", id |-> id, customer_id |-> data.customerId,
     amount |-> amountInCents(data.amount), status |-> data.status,
     date |-> 0]

\* schema.parse(payload), which throws where safeParse fails.
parse(fd) == safeParse(fd).data

\* A handler whose failed validation does not return.
Validated_NoEarlyReturn(call, validatedFields, message, stmt) ==
    [call EXCEPT !.pc = "awaiting", !.stmt = stmt, !.trace = <<"sql">>,
                 !.result = IF validatedFields.success THEN @
                            ELSE FailureResult(validatedFields, message)]

\* The handler from the validation to the await: the early return, or the
\* statement sent to the store.
Validated(call, validatedFields, message, stmt) ==
    IF ~validatedFields.success
    THEN [call EXCEPT !.pc = "returned",
                      !.result = FailureResult(validatedFields, message)]
    ELSE [call EXCEPT !.pc = "awaiting", !.stmt = stmt, !.trace = <<"sql">>]

createInvoice(c) ==
    /\ calls[c].pc = "submitted"
    /\ calls[c].op = "create"
    /\ calls' = [calls EXCEPT ![c] =
            Validated(calls[c], safeParse(calls[c].formData), CreateMessage,
                      InsertStmt(parse(calls[c].formData), IsoDate(now)))]
    /\ UNCHANGED <<store, now, stale>>

updateInvoice(c) ==
    /\ calls[c].pc = "submitted"
    /\ calls[c].op = "update"
    /\ calls' = [calls EXCEPT ![c] =
            Validated(calls[c], safeParse(calls[c].formData), UpdateMessage,
                      UpdateStmt(calls[c].id, parse(calls[c].formData)))]
    /\ UNCHANGED <<store, now, stale>>

(***************************************************************************)
(* The store executing a statement, and the rest of the handler: the      *)
(* catch block, revalidatePath and redirect.                               *)
(***************************************************************************)
RowOf(stmt) ==
    [customer_id |-> stmt.customer_id, amount |-> stmt.amount,
     status |-> stmt.status, date |-> stmt.date]

\* The table after the INSERT, the store having assigned the identifier id.
ApplyInsert(table, id, stmt) ==
    [i \in DOMAIN table \cup {id} |-> IF i = id THEN RowOf(stmt) ELSE table[i]]

\* An UPDATE without its WHERE clause.
ApplyUpdate_NoWhere(table, stmt) ==
    [i \in DOMAIN table |->
        [table[i] EXCEPT !.customer_id = stmt.customer_id,
                         !.amount = stmt.amount,
                         !.status = stmt.status]]

\* The table after the UPDATE: the SET columns of the row with the id.
ApplyUpdate(table, stmt) ==
    [i \in DOMAIN table |->
        IF i = stmt.id
        THEN [table[i] EXCEPT !.customer_id = stmt.customer_id,
                              !.amount = stmt.amount,
                              !.status = stmt.status]
        ELSE table[i]]

\* revalidatePath and redirect inside the try block: a failure skips them.
AfterAwait_InsideTry(ok) ==
    IF ok THEN <<"revalidatePath", "redirect">> ELSE <<"console.error">>

\* What the handler does once the statement has settled: the catch block
\* logs a failure, and revalidatePath and redirect follow either way.
AfterAwait(ok) ==
    IF ok THEN <<"revalidatePath", "redirect">>
    ELSE <<"console.error", "revalidatePath", "redirect">>

\* The invocation after these events: redirect ends it by navigation.
Settled(call, ok, events) ==
    [call EXCEPT !.trace = @ \o <<IF ok THEN "sql:ok" ELSE "sql:error">> \o events,
                 !.pc = IF events[Len(events)] = "redirect" THEN "redirected"
                        ELSE "thrown"]

Finish(c, ok) ==
    /\ calls' = [calls EXCEPT ![c] = Settled(calls[c], ok, AfterAwait(ok))]
    /\ stale' = (stale \/ \E i \in 1..Len(AfterAwait(ok)) :
                              AfterAwait(ok)[i] = "revalidatePath")

\* The statement succeeds.
SqlSucceeds(c) ==
    /\ calls[c].pc = "awaiting"
    /\ \/ /\ calls[c].stmt.kind = "INSERT"
          /\ \E id \in Ids \ DOMAIN store :
                store' = ApplyInsert(store, id, calls[c].stmt)
       \/ /\ calls[c].stmt.kind = "UPDATE"
          /\ store' = ApplyUpdate(store, calls[c].stmt)
    /\ Finish(c, TRUE)
    /\ UNCHANGED now

\* The statement fails (the connection, a constraint of the table): the
\* promise rejects and the table is as it was.
SqlFails(c) ==
    /\ calls[c].pc = "awaiting"
    /\ Finish(c, FALSE)
    /\ UNCHANGED <<store, now>>

(***************************************************************************)
(* deleteInvoice: the throw comes first; the DELETE and revalidatePath    *)
(* after it are never run.                                                 *)
(***************************************************************************)
\* deleteInvoice without its throw: the DELETE, then revalidatePath.
deleteInvoice_WithoutThrow(c) ==
    /\ calls[c].pc = "submitted"
    /\ calls[c].op = "delete"
    /\ calls' = [calls EXCEPT ![c].pc = "done",
                              ![c].trace = <<"sql", "sql:ok", "revalidatePath">>]
    /\ store' = [i \in DOMAIN store \ {calls[c].id} |-> store[i]]
    /\ stale' = TRUE
    /\ UNCHANGED now

deleteInvoice(c) ==
    /\ calls[c].pc = "submitted"
    /\ calls[c].op = "delete"
    /\ calls' = [calls EXCEPT ![c].pc = "thrown", ![c].trace = <<"throw">>]
    /\ UNCHANGED <<store, now, stale>>

\* Time passes.
Tick ==
    /\ now < MaxNow
    /\ now' = now + 1
    /\ UNCHANGED <<store, stale, calls>>

(***************************************************************************)
(* Spec: concurrent invocations.  SpecV: one invocation, every payload.   *)
(***************************************************************************)
Next ==
    \/ \E c \in Calls, fd \in FormDatas : Submit(c, "create", 0, fd)
    \/ \E c \in Calls, id \in BoundIds, fd \in FormDatas :
            Submit(c, "update", id, fd)
    \/ \E c \in Calls, id \in BoundIds : Submit(c, "delete", id, NoForm)
    \/ \E c \in Calls : createInvoice(c)
    \/ \E c \in Calls : updateInvoice(c)
    \/ \E c \in Calls : deleteInvoice(c)
    \/ \E c \in Calls : SqlSucceeds(c)
    \/ \E c \in Calls : SqlFails(c)
    \/ Tick

Spec == Init /\ [][Next]_vars

NextV ==
    \/ \E fd \in AllFormDatas : Submit(1, "create", 0, fd)
    \/ \E id \in Ids, fd \in AllFormDatas : Submit(1, "update", id, fd)
    \/ createInvoice(1)
    \/ updateInvoice(1)
    \/ SqlSucceeds(1)
    \/ SqlFails(1)

SpecV == Init /\ [][NextV]_vars

(***************************************************************************)
(* The payload in the words of the contract, field by field.              *)
(***************************************************************************)
CustomerIdOk(fd) == fd.customerId.kind = "string"

\* The amount coerces to a number greater than 0.
AmountOk(fd) ==
    ToNumber(fd.amount).cls = "finite" /\ ~ToNumber(fd.amount).neg

\* The amount coerces to a number less than or equal to 0.
AmountNotPositive(fd) ==
    \/ ToNumber(fd.amount).cls = "zero"
    \/ ToNumber(fd.amount).cls = "finite" /\ ToNumber(fd.amount).neg

StatusOk(fd) == fd.status.kind = "string" /\ fd.status.chars \in {Pending, Paid}

FieldOk(f, fd) ==
    CASE f = "customerId" -> CustomerIdOk(fd)
      [] f = "amount" -> AmountOk(fd)
      [] f = "status" -> StatusOk(fd)

PayloadOk(fd) == CustomerIdOk(fd) /\ AmountOk(fd) /\ StatusOk(fd)

Validating(call) == call.op \in {"create", "update"}

\* The invocation has run its validation.
Ran(call) == Validating(call) /\ call.pc \notin {"idle", "submitted"}

\* message is one of the messages of the field f in the returned errors.
Reports(call, f, message) ==
    /\ f \in DOMAIN call.result.errors
    /\ \E i \in 1..Len(call.result.errors[f]) : call.result.errors[f][i] = message

\* C1: an invocation of createInvoice or updateInvoice whose payload fails
\* validation returns the field errors and the summary message of its mode,
\* issues no statement, leaves the store and the staleness of the listing as
\* they were, signals no navigation, and takes no further step.
C1_InvalidPayloadOnlyReturns ==
    [][\A c \in Calls :
        (/\ Validating(calls[c])
         /\ calls[c].pc \in {"submitted", "returned"}
         /\ ~PayloadOk(calls[c].formData)
         /\ calls'[c] # calls[c])
        => /\ calls[c].pc = "submitted"
           /\ calls'[c].pc = "returned"
           /\ calls'[c].result.returned
           /\ DOMAIN calls'[c].result.errors # {}
           /\ calls'[c].result.message =
                 IF calls[c].op = "create"
                 THEN "Missing Fields. Failed to Create Invoice."
                 ELSE "Missing Fields. Failed to Update Invoice."
           /\ calls'[c].stmt.kind = "none"
           /\ calls'[c].trace = <<>>
           /\ store' = store
           /\ stale' = stale]_vars

C1_Witness ==
    \E c \in Calls :
        /\ calls[c].op = "update"
        /\ calls[c].pc = "returned"
        /\ ~StatusOk(calls[c].formData)
        /\ CustomerIdOk(calls[c].formData)
        /\ calls[c].result.message = "Missing Fields. Failed to Update Invoice."
        /\ 1 \in DOMAIN store

\* C2: deleteInvoice(id) throws before anything else, whether or not a row
\* has the id: no statement, the store and the staleness of the listing as
\* they were, no navigation, and no further step.
C2_DeleteOnlyThrows ==
    [][\A c \in Calls :
        (calls[c].op = "delete" /\ calls'[c] # calls[c])
        => /\ calls[c].pc = "submitted"
           /\ calls'[c].pc = "thrown"
           /\ calls'[c].trace = <<"throw">>
           /\ calls'[c].stmt.kind = "none"
           /\ store' = store
           /\ stale' = stale]_vars

C2_Witness ==
    \E c \in Calls :
        /\ calls[c].op = "delete"
        /\ calls[c].pc = "thrown"
        /\ calls[c].trace = <<"throw">>
        /\ calls[c].id \in DOMAIN store
        /\ store[calls[c].id] = SeedRow
        /\ ~stale

\* C3: an invocation whose payload passes validation sends its statement and
\* nothing else before the statement settles; once it has settled, with
\* success or with failure, the listing is marked stale and then the
\* navigation is signalled; a failure is logged, returns nothing to the
\* caller and leaves the store as it was.
C3_RevalidateThenRedirect ==
    [][\A c \in Calls :
        (/\ Validating(calls[c])
         /\ calls[c].pc # "idle"
         /\ PayloadOk(calls[c].formData)
         /\ calls'[c] # calls[c])
        => \/ /\ calls[c].pc = "submitted"
              /\ calls'[c].pc = "awaiting"
              /\ calls'[c].trace = <<"sql">>
              /\ stale' = stale
              /\ store' = store
           \/ /\ calls[c].pc = "awaiting"
              /\ calls'[c].pc = "redirected"
              /\ ~calls'[c].result.returned
              /\ stale'
              /\ \/ calls'[c].trace = <<"sql", "sql:ok", "revalidatePath", "redirect">>
                 \/ /\ calls'[c].trace = <<"sql", "sql:error", "console.error",
                                           "revalidatePath", "redirect">>
                    /\ store' = store]_vars

C3_Witness ==
    \E c \in Calls :
        /\ calls[c].op = "create"
        /\ calls[c].pc = "redirected"
        /\ calls[c].trace[2] = "sql:error"
        /\ stale

\* The row an update writes: the three columns from the payload, the date
\* of the row as it was.
Overwritten(row, fd) ==
    [customer_id |-> fd.customerId.chars,
     amount |-> TimesSmall(ToNumber(fd.amount), 100),
     status |-> fd.status.chars,
     date |-> row.date]

\* C4: no step removes a row or changes the date of a row; an update that
\* succeeds overwrites customer_id, amount and status of the row with its id,
\* leaves every other row as it was, and changes nothing when no row has
\* the id.
C4_UpdateFrame ==
    [][/\ \A i \in DOMAIN store :
            i \in DOMAIN store' /\ store'[i].date = store[i].date
       /\ \A c \in Calls :
            (/\ calls[c].op = "update"
             /\ calls[c].pc = "awaiting"
             /\ calls'[c].pc # "awaiting"
             /\ calls'[c].trace[2] = "sql:ok")
            => /\ DOMAIN store' = DOMAIN store
               /\ \A i \in DOMAIN store :
                    store'[i] = IF i = calls[c].id
                                THEN Overwritten(store[i], calls[c].formData)
                                ELSE store[i]]_vars

C4_Witness ==
    \E c \in Calls :
        /\ calls[c].op = "update"
        /\ calls[c].pc = "redirected"
        /\ calls[c].trace[2] = "sql:ok"
        /\ calls[c].id \in DOMAIN store
        /\ store[calls[c].id].customer_id = calls[c].formData.customerId.chars
        /\ store[calls[c].id].customer_id # SeedRow.customer_id
        /\ store[calls[c].id].date # IsoDate(now)
        /\ Cardinality(DOMAIN store) > 1

\* C5: a payload whose amount coerces to a number less than or equal to 0
\* (a missing amount coerces to 0) fails validation, and the errors of
\* amount hold 'Please enter an amount greater than $0.'.
C5_NonPositiveAmount ==
    \A c \in Calls :
        (Ran(calls[c]) /\ AmountNotPositive(calls[c].formData))
        => /\ calls[c].pc = "returned"
           /\ Reports(calls[c], "amount", "Please enter an amount greater than $0.")

C5_Witness ==
    \E c \in Calls :
        /\ calls[c].pc = "returned"
        /\ calls[c].formData.amount = Null
        /\ CustomerIdOk(calls[c].formData)
        /\ StatusOk(calls[c].formData)
        /\ Reports(calls[c], "amount", "Please enter an amount greater than $0.")

\* C6 as stated: a payload whose status is not 'pending' or 'paid' (missing,
\* or any other value) fails validation, and the errors of status hold
\* 'Please select an invoice status.'.
C6_AsStated ==
    \A c \in Calls :
        (Ran(calls[c]) /\ ~StatusOk(calls[c].formData))
        => /\ calls[c].pc = "returned"
           /\ Reports(calls[c], "status", "Please select an invoice status.")

\* C6: a payload whose status is not 'pending' or 'paid' fails validation;
\* the errors of status hold 'Please select an invoice status.' when the
\* status is missing or is not a string, and zod's message for a value
\* outside the enumeration, and not that one, when it is another string.
C6_StatusMessageByType ==
    \A c \in Calls :
        (Ran(calls[c]) /\ ~StatusOk(calls[c].formData))
        => /\ calls[c].pc = "returned"
           /\ "status" \in DOMAIN calls[c].result.errors
           /\ IF calls[c].formData.status.kind # "string"
              THEN calls[c].result.errors["status"]
                       = <<"Please select an invoice status.">>
              ELSE calls[c].result.errors["status"]
                       = <<"Invalid enum value. Expected 'pending' | 'paid'">>

C6_Witness ==
    \E c \in Calls :
        /\ calls[c].pc = "returned"
        /\ calls[c].formData.status = Str(Draft)
        /\ CustomerIdOk(calls[c].formData)
        /\ AmountOk(calls[c].formData)
        /\ DOMAIN calls[c].result.errors = {"status"}

\* C7: the errors returned for a payload that fails validation have a
\* non-empty sequence for every field that is invalid and no entry for a
\* field that is valid.
C7_ErrorsOfEveryInvalidField ==
    \A c \in Calls :
        (Ran(calls[c]) /\ ~PayloadOk(calls[c].formData))
        => /\ calls[c].result.returned
           /\ \A f \in Fields :
                IF FieldOk(f, calls[c].formData)
                THEN f \notin DOMAIN calls[c].result.errors
                ELSE /\ f \in DOMAIN calls[c].result.errors
                     /\ calls[c].result.errors[f] # <<>>

C7_Witness ==
    \E c \in Calls :
        /\ calls[c].pc = "returned"
        /\ ~CustomerIdOk(calls[c].formData)
        /\ ~AmountOk(calls[c].formData)
        /\ StatusOk(calls[c].formData)
        /\ DOMAIN calls[c].result.errors = {"customerId", "amount"}

\* The literal of an amount that passed validation: its digits, without the
\* white space around them and the sign.
Literal(v) ==
    IF Trim(v.chars)[1] = "+" THEN Tail(Trim(v.chars)) ELSE Trim(v.chars)

\* C8: the amount written to the store for a payload that passes validation
\* is a non-negative integer, the decimal amount multiplied by 100.
C8_WrittenAmountIsWholeCents ==
    \A c \in Calls :
        (Ran(calls[c]) /\ PayloadOk(calls[c].formData))
        => /\ calls[c].stmt.kind # "none"
           /\ IsInteger(calls[c].stmt.amount)
           /\ EqualsRational(calls[c].stmt.amount,
                  100 * DigitsToNat(AllDigits(Literal(calls[c].formData.amount))),
                  Pow10(Scale(Literal(calls[c].formData.amount))))

\* C9: the customerId written to the store is a non-empty string.
C9_WrittenCustomerIdNonEmpty ==
    \A c \in Calls :
        calls[c].stmt.kind # "none" => calls[c].stmt.customer_id # <<>>

\* C10: when the store accepts the insert of createInvoice, the store gains
\* one row, under an identifier no row had, with the customerId of the
\* payload, its amount multiplied by 100, its status, which is 'pending' or
\* 'paid', and the UTC date of the instant at which createInvoice ran; the
\* rows it held are as they were.
C10_InsertedRow ==
    [][\A c \in Calls :
        /\ (calls[c].op = "create" /\ calls[c].pc = "submitted"
                /\ calls'[c].pc = "awaiting")
           => calls'[c].stmt.date = now \div InstantsPerDay
        /\ (calls[c].op = "create" /\ calls[c].pc = "awaiting"
                /\ calls'[c].pc # "awaiting" /\ calls'[c].trace[2] = "sql:ok")
           => /\ \A i \in DOMAIN store : i \in DOMAIN store' /\ store'[i] = store[i]
              /\ Cardinality(DOMAIN store' \ DOMAIN store) = 1
              /\ \A i \in DOMAIN store' \ DOMAIN store :
                    /\ store'[i].customer_id = calls[c].formData.customerId.chars
                    /\ store'[i].amount
                          = TimesSmall(ToNumber(calls[c].formData.amount), 100)
                    /\ store'[i].status = calls[c].formData.status.chars
                    /\ store'[i].status \in {Pending, Paid}
                    /\ store'[i].date = calls[c].stmt.date]_vars

C10_Witness ==
    \E c \in Calls :
        /\ calls[c].op = "create"
        /\ calls[c].pc = "redirected"
        /\ calls[c].trace[2] = "sql:ok"
        /\ \E i \in DOMAIN store :
              /\ i # 1
              /\ store[i].date = 1
              /\ store[i].date = calls[c].stmt.date
              /\ store[i].customer_id = calls[c].formData.customerId.chars
        /\ 1 \in DOMAIN store

====
